---- MODULE Spec2Model ----
(***************************************************************************)
(* Model of the approval gate, the resume controller and the durable order *)
(* queue of src/main.py (BotLMKRD).                                        *)
(*                                                                         *)
(* All handlers run as tasks of one asyncio event loop.  The sqlite        *)
(* helpers and the in-memory FSM storage are coroutines or functions that  *)
(* never suspend, so a handler is atomic between two network awaits        *)
(* (bot.send_message, message.answer, callback.answer, edit_text,          *)
(* asyncio.sleep).  Each action below is one such atomic stretch.          *)
(***************************************************************************)
EXTENDS Integers, Sequences, FiniteSets, TLC

(***************************************************************************)
(* Bounds of the model.                                                    *)
(***************************************************************************)
MaxOrders == 2
MaxLiveOrders == 2
MaxDbFaults == 2
MaxInflight == 1
MaxRows == 3
MaxLimit == 2
MaxRequests == 1
MaxUserRequests == 2

(***************************************************************************)
(* Program constants.                                                      *)
(***************************************************************************)
MAX_ATTEMPTS == 5
max_retries == 5
BatchLimit == 5

Users == {"u1"}
Managers == {"m1", "m2"}
Actors == Users \cup Managers
PlainArticles == {"2000"}
ManagedTop0Articles == {"1000"}
Top0Articles == ManagedTop0Articles \cup {"1001"}
RejectReasons == {"budget"}
Comments == RejectReasons \cup {" "}
Quantities == {1}
TwoQuantities == {1, 2}
Reasons == {"client"}
NULL == 0
Stamp == 1

VARIABLES
    now,        \* CURRENT_TIMESTAMP of sqlite at the last INSERT, in seconds
    dbFaults,   \* writing sqlite statements that raised so far
    queue,      \* table order_queue; the row id is the index
    hist,       \* per queue row: ledger write attempts, ledger rows, escalations
    wpc,        \* position of process_order_queue
    batch,      \* pending_orders still to be processed in this cycle
    wpc2,       \* position of process_order_queue in a second bot process
    batch2,     \* pending_orders of the second bot process
    sess,       \* FSM storage: per user the state and the data
    confirming, \* final_confirmation tasks suspended in message.answer
    alerts,     \* operator alerts sent by request handlers, in the order sent
    probe,      \* arguments and result of a store function applied on its own
    requests,   \* table approval_requests; request_id is the index
    rhist,      \* per request: decisions and approvals that took effect,
                \* requester notifications delivered, session restores, and
                \* whether an event of another actor than the approver was refused
    tasks,      \* process_quantity_input handlers suspended in bot.send_message
    delivered,  \* request ids whose approver message (with buttons) was delivered
    continueBtns, \* request ids whose "continue order" button reached the requester
    notices,    \* kinds of refusals a handler has answered its user with
    surfaced    \* failed sqlite writes that a handler reported to its user

apprVars == <<requests, rhist, tasks, delivered, continueBtns, notices, surfaced>>

vars == <<now, dbFaults, queue, hist, wpc, batch, wpc2, batch2, sess, confirming,
          alerts, probe, apprVars>>

worker2Vars == <<wpc2, batch2>>
workerVars == <<wpc, batch, worker2Vars>>
queueVars == <<queue, hist>>
userVars == <<sess, confirming, alerts, probe, apprVars>>

(***************************************************************************)
(* Every sqlite helper of main.py catches the exception of a failed        *)
(* statement and returns False.  A writing statement fails with "database  *)
(* is locked" while another connection holds the write lock (the           *)
(* import_*.py scripts write to the same articles.db); reads go through.   *)
(* dbOk is the outcome of the writing statement of one helper call.        *)
(***************************************************************************)
DbOutcomes == IF dbFaults < MaxDbFaults THEN {TRUE, FALSE} ELSE {TRUE}

DbCall(dbOk) == dbFaults' = IF dbOk THEN dbFaults ELSE dbFaults + 1

(***************************************************************************)
(* FSM data is a dict: a function from the keys present to their values.   *)
(***************************************************************************)
NoData == <<>>

update_data(d, new) == new @@ d

NoSession == [state |-> "none", data |-> NoData]

DepartmentOf(article) == IF article = "1001" THEN "2" ELSE "1"

get_manager_id_by_department_default(department) == {"m1"}

(* The sheet of managers held in the cache: department -> manager. *)
get_manager_id_by_department(department) ==
    IF department = "1" THEN {"m1"} ELSE {}

TopOf_zero(article) == "0"

TopOf(article) == IF article \in PlainArticles THEN "1" ELSE "0"

required_fields ==
    {"selected_shop", "article", "order_reason", "quantity", "department",
     "user_name", "user_position"}

(***************************************************************************)
(* json.dumps(..., default=str) and json.loads on a dict with str keys     *)
(* whose values are str or int: the text holds, per key, a JSON string or  *)
(* a JSON number.  Of the FSM data only quantity is an int (int(text)).    *)
(***************************************************************************)
IntKeys == {"quantity"}

json_dumps(d) ==
    [k \in DOMAIN d |-> IF k \in IntKeys THEN <<"number", d[k]>> ELSE <<"string", d[k]>>]

json_loads_dropping(s) == [k \in DOMAIN s \ IntKeys |-> s[k][2]]

json_loads(s) == [k \in DOMAIN s |-> s[k][2]]

(***************************************************************************)
(* Queue store.  The column last_attempt is written but never read and is  *)
(* left out; processed_at is NULL or a timestamp (Stamp).                  *)
(***************************************************************************)
add_order_to_queue_retried(q, user_id, order_data, t, dbOk) ==
    IF ~dbOk
    THEN q
    ELSE Append(q, [user_id |-> user_id,
                    order_data |-> json_dumps(order_data),
                    status |-> "pending",
                    attempt_count |-> 1,
                    error_message |-> "",
                    created_at |-> t,
                    processed_at |-> NULL])

add_order_to_queue(q, user_id, order_data, t, dbOk) ==
    IF ~dbOk
    THEN q
    ELSE Append(q, [user_id |-> user_id,
                    order_data |-> json_dumps(order_data),
                    status |-> "pending",
                    attempt_count |-> 0,
                    error_message |-> "",
                    created_at |-> t,
                    processed_at |-> NULL])

EligibleNoRetry(q) ==
    {i \in 1..Len(q) : q[i].status = "pending"}

EligibleOffByOne(q) ==
    {i \in 1..Len(q) :
        \/ q[i].status = "pending"
        \/ q[i].status = "failed" /\ q[i].attempt_count <= MAX_ATTEMPTS}

Eligible(q) ==
    {i \in 1..Len(q) :
        \/ q[i].status = "pending"
        \/ q[i].status = "failed" /\ q[i].attempt_count < MAX_ATTEMPTS}

RECURSIVE OrderingsDesc(_, _)
OrderingsDesc(q, S) ==
    IF S = {}
    THEN {<<>>}
    ELSE UNION {{<<m>> \o rest : rest \in OrderingsDesc(q, S \ {m})} :
                m \in {i \in S : \A j \in S : q[i].created_at >= q[j].created_at}}

RECURSIVE Orderings(_, _)
(* ORDER BY created_at ASC: every order of the rows that is ascending in   *)
(* created_at; rows of the same second come in an order SQL leaves open.   *)
Orderings(q, S) ==
    IF S = {}
    THEN {<<>>}
    ELSE UNION {{<<m>> \o rest : rest \in Orderings(q, S \ {m})} :
                m \in {i \in S : \A j \in S : q[i].created_at <= q[j].created_at}}

Min(a, b) == IF a <= b THEN a ELSE b

RowOf(q, i) ==
    [id |-> i,
     user_id |-> q[i].user_id,
     order_data |-> json_loads(q[i].order_data),
     attempt_count |-> q[i].attempt_count]

get_pending_orders(q, limit) ==
    {[k \in 1..Min(limit, Len(s)) |-> RowOf(q, s[k])] : s \in Orderings(q, Eligible(q))}

update_order_status_guarded(q, order_id, status, error_message, dbOk) ==
    IF ~dbOk \/ order_id \notin 1..Len(q)
    THEN q
    ELSE IF status = "completed"
    THEN [q EXCEPT ![order_id].status = status,
                   ![order_id].processed_at = Stamp]
    ELSE IF status = "failed"
    THEN [q EXCEPT ![order_id].status = status,
                   ![order_id].error_message = error_message,
                   ![order_id].attempt_count = @ + 1]
    ELSE IF q[order_id].status \in {"pending", "failed"}
    THEN [q EXCEPT ![order_id].status = status]
    ELSE q

update_order_status_counting(q, order_id, status, error_message, dbOk) ==
    IF ~dbOk \/ order_id \notin 1..Len(q)
    THEN q
    ELSE IF status = "completed"
    THEN [q EXCEPT ![order_id].status = status,
                   ![order_id].attempt_count = @ + 1,
                   ![order_id].processed_at = Stamp]
    ELSE IF status = "failed"
    THEN [q EXCEPT ![order_id].status = status,
                   ![order_id].error_message = error_message,
                   ![order_id].attempt_count = @ + 1]
    ELSE [q EXCEPT ![order_id].status = status]

update_order_status(q, order_id, status, error_message, dbOk) ==
    IF ~dbOk \/ order_id \notin 1..Len(q)
    THEN q
    ELSE IF status = "completed"
    THEN [q EXCEPT ![order_id].status = status,
                   ![order_id].processed_at = Stamp]
    ELSE IF status = "failed"
    THEN [q EXCEPT ![order_id].status = status,
                   ![order_id].error_message = error_message,
                   ![order_id].attempt_count = @ + 1]
    ELSE [q EXCEPT ![order_id].status = status]

(***************************************************************************)
(* Queue worker: process_order_queue.  The gspread calls are blocking, so  *)
(* the worker suspends only in asyncio.sleep and in the sends of the       *)
(* escalation; the steps of one entry are kept apart because the row is    *)
(* visible to other connections in between.                                *)
(***************************************************************************)
NextItem ==
    /\ batch' = Tail(batch)
    /\ wpc' = IF Tail(batch) = <<>> THEN "pause" ELSE "mark"

WorkerClaim ==
    /\ wpc = "claim"
    /\ \E rows \in get_pending_orders(queue, BatchLimit) :
          /\ batch' = rows
          /\ wpc' = IF rows = <<>> THEN "idle" ELSE "mark"
    /\ UNCHANGED <<now, dbFaults, queueVars, worker2Vars, userVars>>

WorkerWake ==
    /\ wpc \in {"idle", "pause"}
    /\ wpc' = "claim"
    /\ UNCHANGED <<now, dbFaults, queueVars, worker2Vars, batch, userVars>>

WorkerMark(dbOk) ==
    /\ wpc = "mark"
    /\ DbCall(dbOk)
    /\ queue' = update_order_status(queue, Head(batch).id, "processing", "", dbOk)
    /\ wpc' = "write"
    /\ UNCHANGED <<now, hist, batch, worker2Vars, userVars>>

WorkerWrite(ok, dbOk) ==
    /\ wpc = "write"
    /\ DbCall(dbOk)
    /\ LET item == Head(batch) IN
       IF ok
       THEN /\ queue' = update_order_status(queue, item.id, "completed", "", dbOk)
            /\ hist' = [hist EXCEPT ![item.id].tries = @ + 1,
                                    ![item.id].rows = @ + 1]
            /\ NextItem
       ELSE /\ queue' = update_order_status(queue, item.id, "failed", "error", dbOk)
            /\ IF item.attempt_count + 1 >= max_retries
               THEN /\ hist' = [hist EXCEPT ![item.id].tries = @ + 1,
                                            ![item.id].esc = @ + 1]
                    /\ wpc' = "escalate"
                    /\ batch' = batch
               ELSE /\ hist' = [hist EXCEPT ![item.id].tries = @ + 1]
                    /\ NextItem
    /\ UNCHANGED <<now, worker2Vars, userVars>>

WorkerEscalate_clearing ==
    /\ wpc = "escalate"
    /\ NextItem
    /\ sess' = [sess EXCEPT ![Head(batch).user_id] = NoSession]
    /\ UNCHANGED <<now, dbFaults, queueVars, worker2Vars, confirming, alerts, probe, apprVars>>

WorkerEscalate ==
    /\ wpc = "escalate"
    /\ NextItem
    /\ UNCHANGED <<now, dbFaults, queueVars, worker2Vars, userVars>>

(* get_pending_orders whose SELECT raised: it logs the error and returns    *)
(* [], and the worker sleeps as for an empty queue.                        *)
WorkerClaimFailed ==
    /\ wpc = "claim"
    /\ batch' = <<>>
    /\ wpc' = "idle"
    /\ UNCHANGED <<now, dbFaults, queueVars, worker2Vars, userVars>>

WorkerCycleError_exits ==
    /\ wpc \in {"mark", "write", "escalate"}
    /\ batch' = <<>>
    /\ wpc' = "stopped"
    /\ UNCHANGED <<now, dbFaults, queueVars, worker2Vars, userVars>>

(* An exception that the handler of the entry does not catch (a            *)
(* MemoryError in a logging call, say) reaches the except branch of the    *)
(* loop: it is logged, the ADMINS are told, and after a sleep of 10 s the  *)
(* loop starts its next cycle; the rest of the batch is dropped.           *)
WorkerCycleError ==
    /\ wpc \in {"mark", "write", "escalate"}
    /\ batch' = <<>>
    /\ wpc' = "pause"
    /\ UNCHANGED <<now, dbFaults, queueVars, worker2Vars, userVars>>

(* The event loop runs a handler only while the worker is suspended: the   *)
(* stretch from update_order_status(.., 'processing') to the recording of  *)
(* the outcome has no await.                                               *)
LoopFree == wpc \notin {"mark", "write"}

(***************************************************************************)
(* Order entry conversation.                                               *)
(***************************************************************************)
StartOrder(u, article, cap) ==
    /\ LoopFree
    /\ Len(queue) < cap
    /\ sess' = [sess EXCEPT ![u] =
           [state |-> "quantity_input",
            data |-> update_data(sess[u].data,
                [k \in {"user_name", "user_position", "article", "selected_shop",
                        "department", "top_in_shop"} |->
                    CASE k = "user_name" -> u
                      [] k = "user_position" -> "seller"
                      [] k = "article" -> article
                      [] k = "selected_shop" -> "7"
                      [] k = "department" -> DepartmentOf(article)
                      [] OTHER -> TopOf(article)])]]
    /\ UNCHANGED <<now, dbFaults, queueVars, workerVars, confirming, alerts, probe, apprVars>>

process_quantity_input(u, quantity) ==
    /\ LoopFree
    /\ sess[u].state = "quantity_input"
    /\ LET data == update_data(sess[u].data, [k \in {"quantity"} |-> quantity]) IN
       /\ TopOf(data["article"]) # "0"
       /\ sess' = [sess EXCEPT ![u] = [state |-> "order_reason_input", data |-> data]]
    /\ UNCHANGED <<now, dbFaults, queueVars, workerVars, confirming, alerts, probe, apprVars>>

process_order_reason(u, reason) ==
    /\ LoopFree
    /\ sess[u].state = "order_reason_input"
    /\ sess' = [sess EXCEPT ![u] =
           [state |-> "confirmation",
            data |-> update_data(sess[u].data, [k \in {"order_reason"} |-> reason])]]
    /\ UNCHANGED <<now, dbFaults, queueVars, workerVars, confirming, alerts, probe, apprVars>>

final_confirmation(u) ==
    /\ LoopFree
    /\ sess[u].state = "confirmation"
    /\ Len(confirming[u]) < MaxInflight
    /\ IF required_fields \subseteq DOMAIN sess[u].data
       THEN /\ confirming' = [confirming EXCEPT ![u] = Append(@, sess[u].data)]
            /\ sess' = sess
       ELSE /\ sess' = [sess EXCEPT ![u] = NoSession]
            /\ confirming' = confirming
    /\ UNCHANGED <<now, dbFaults, queueVars, workerVars, alerts, probe, apprVars>>

correct_quantity_in_place(u) ==
    /\ LoopFree
    /\ sess[u].state = "confirmation"
    /\ sess' = [sess EXCEPT ![u].data =
                   update_data(@, [k \in {"quantity"} |-> 3 - @["quantity"]])]
    /\ UNCHANGED <<now, dbFaults, queueVars, workerVars, confirming, alerts, probe, apprVars>>

(* "Исправить количество" at the confirmation step: back to the quantity   *)
(* input with the data of the session as they are.                         *)
correct_quantity(u) ==
    /\ LoopFree
    /\ sess[u].state = "confirmation"
    /\ sess' = [sess EXCEPT ![u].state = "quantity_input"]
    /\ UNCHANGED <<now, dbFaults, queueVars, workerVars, confirming, alerts, probe, apprVars>>

final_confirmation_enqueue(u, t, dbOk, cap) ==
    /\ LoopFree
    /\ confirming[u] # <<>>
    /\ Len(queue) < cap
    /\ DbCall(dbOk)
    /\ now' = IF dbOk THEN t ELSE now
    /\ LET data == Head(confirming[u]) IN
       /\ queue' = add_order_to_queue(queue, u, data, t, dbOk)
       /\ hist' = IF dbOk THEN Append(hist, [tries |-> 0, rows |-> 0, esc |-> 0])
                  ELSE hist
       /\ alerts' = IF dbOk THEN alerts
                    ELSE Append(alerts, [user |-> u, article |-> data["article"],
                                         shop |-> data["selected_shop"]])
    /\ confirming' = [confirming EXCEPT ![u] = Tail(@)]
    /\ sess' = [sess EXCEPT ![u] = NoSession]
    /\ UNCHANGED <<workerVars, probe, apprVars>>

(***************************************************************************)
(* Request store: table approval_requests.  A deleted row stays in the     *)
(* sequence with present = FALSE, so that request ids are never reused.    *)
(***************************************************************************)
None == "<None>"

MsgId(rid) == 100 + rid

RowExists(rs, rid) == rid \in 1..Len(rs) /\ rs[rid].present

create_approval_request_once(rs, user_id, manager_id, department, article, user_data, dbOk) ==
    IF ~dbOk \/ \E r \in 1..Len(rs) : /\ rs[r].present
                                      /\ rs[r].user_id = user_id
                                      /\ rs[r].status = "pending"
    THEN rs
    ELSE Append(rs, [present |-> TRUE,
                     user_id |-> user_id,
                     manager_id |-> manager_id,
                     department |-> department,
                     article |-> article,
                     user_data |-> json_dumps(user_data),
                     status |-> "pending",
                     manager_message_id |-> NULL,
                     reject_comment |-> None])

create_approval_request(rs, user_id, manager_id, department, article, user_data, dbOk) ==
    IF ~dbOk
    THEN rs
    ELSE Append(rs, [present |-> TRUE,
                     user_id |-> user_id,
                     manager_id |-> manager_id,
                     department |-> department,
                     article |-> article,
                     user_data |-> json_dumps(user_data),
                     status |-> "pending",
                     manager_message_id |-> NULL,
                     reject_comment |-> None])

update_approval_request_status(rs, rid, status, manager_message_id, reject_comment, dbOk) ==
    IF ~dbOk \/ ~RowExists(rs, rid)
    THEN rs
    ELSE [rs EXCEPT ![rid].status = status,
                    ![rid].manager_message_id =
                        IF manager_message_id # NULL THEN manager_message_id ELSE @,
                    ![rid].reject_comment =
                        IF reject_comment # None THEN reject_comment ELSE @]

delete_approval_request(rs, rid, dbOk) ==
    IF ~dbOk \/ ~RowExists(rs, rid)
    THEN rs
    ELSE [rs EXCEPT ![rid].present = FALSE]

(***************************************************************************)
(* Handlers of the approval gate and of the resume controller.  The gate   *)
(* is split at its await of bot.send_message, after which it writes to the *)
(* request; the other handlers write before their awaits and end with      *)
(* state.clear() or state.set_state(), and are one step each.              *)
(***************************************************************************)
(* The check "this is not your request" of both approver handlers. *)
NotYoursNever(request_data, manager_id) == FALSE

NotYours(request_data, manager_id) == request_data.manager_id # manager_id

Task(actor, rid, ok) == [actor |-> actor, rid |-> rid, ok |-> ok]

strip_nothing(text) == text

strip_all(text) == ""

strip(text) == IF text = " " THEN "" ELSE text

(* process_quantity_input for an item with top_in_shop = '0', up to the    *)
(* await of the message to the manager.                                    *)
process_quantity_input_gate(u, quantity, dbOk, sendOk, cap) ==
    /\ LoopFree
    /\ sess[u].state = "quantity_input"
    /\ TopOf(sess[u].data["article"]) = "0"
    /\ Len(requests) < cap
    /\ DbCall(dbOk)
    /\ LET data == update_data(sess[u].data, [k \in {"quantity"} |-> quantity])
           mgrs == get_manager_id_by_department(data["department"])
           rid == Len(requests) + 1
       IN  IF mgrs = {}
           THEN /\ dbOk /\ sendOk
                /\ sess' = [sess EXCEPT ![u] = NoSession]
                /\ notices' = notices \cup {"no_manager"}
                /\ UNCHANGED <<requests, rhist, tasks, delivered, surfaced>>
           ELSE IF ~dbOk
           THEN /\ sendOk
                /\ sess' = [sess EXCEPT ![u] = NoSession]
                /\ surfaced' = surfaced + 1
                /\ UNCHANGED <<requests, rhist, tasks, delivered, notices>>
           ELSE /\ UNCHANGED <<notices, surfaced>>
                /\ \E m \in mgrs :
                     requests' = create_approval_request(requests, u, m,
                                     data["department"], data["article"], data, dbOk)
                /\ sess' = [sess EXCEPT ![u].data = data]
                /\ rhist' = Append(rhist, [decisions |-> 0, approvals |-> 0, notes |-> 0,
                                           restores |-> 0, denied |-> FALSE,
                                           frozen |-> data])
                /\ tasks' = tasks \cup {Task(u, rid, sendOk)}
                /\ delivered' = IF sendOk THEN delivered \cup {rid} ELSE delivered
    /\ UNCHANGED <<now, queueVars, workerVars, confirming, alerts, probe, continueBtns>>

(* process_quantity_input after bot.send_message to the manager returned:  *)
(* the message id is recorded together with status 'pending', the user is  *)
(* told to wait and the state is cleared.                                  *)
gate_sent(u, rid, dbOk) ==
    /\ LoopFree
    /\ Task(u, rid, TRUE) \in tasks
    /\ DbCall(dbOk)
    /\ requests' = update_approval_request_status(requests, rid, "pending",
                                                  MsgId(rid), None, dbOk)
    /\ sess' = [sess EXCEPT ![u] = NoSession]
    /\ tasks' = tasks \ {Task(u, rid, TRUE)}
    /\ UNCHANGED <<now, queueVars, workerVars, confirming, alerts, probe,
                   rhist, delivered, continueBtns, notices, surfaced>>

(* process_quantity_input after bot.send_message to the manager raised.    *)
gate_send_failed(u, rid, dbOk) ==
    /\ LoopFree
    /\ Task(u, rid, FALSE) \in tasks
    /\ DbCall(dbOk)
    /\ requests' = delete_approval_request(requests, rid, dbOk)
    /\ sess' = [sess EXCEPT ![u] = NoSession]
    /\ tasks' = tasks \ {Task(u, rid, FALSE)}
    /\ UNCHANGED <<now, queueVars, workerVars, confirming, alerts, probe,
                   rhist, delivered, continueBtns, notices, surfaced>>

awaiting_reject_comment_keeping(data, rid) ==
    [state |-> "awaiting_reject_comment",
     data |-> IF "current_reject_request_id" \in DOMAIN data
              THEN update_data(data, [k \in {"next_reject_request_id"} |-> rid])
              ELSE update_data(data, [k \in {"current_reject_request_id"} |-> rid])]

awaiting_reject_comment_unkeyed(data, rid) ==
    [state |-> "awaiting_reject_comment", data |-> data]

(* set_state(awaiting_reject_comment) and update_data with the request id  *)
(* of the start-reject branch.                                             *)
awaiting_reject_comment(data, rid) ==
    [state |-> "awaiting_reject_comment",
     data |-> update_data(data, [k \in {"current_reject_request_id"} |-> rid])]

notify_failed_reverting(rs, rid) ==
    update_approval_request_status(rs, rid, "pending", NULL, None, TRUE)

(* The except branch around the notification of the requester: the error   *)
(* is logged and the approver is answered; the request is not written.     *)
notify_failed(rs, rid) == rs

handle_manager_approval(actor, action, rid, dbOk, netOk) ==
    /\ LoopFree
    /\ rid \in delivered
    /\ DbCall(dbOk)
    /\ IF ~RowExists(requests, rid)
       THEN /\ dbOk /\ netOk
            /\ UNCHANGED <<requests, rhist, sess, continueBtns, notices, surfaced>>
       ELSE IF NotYours(requests[rid], actor)
       THEN /\ dbOk /\ netOk
            /\ rhist' = [rhist EXCEPT ![rid].denied = TRUE]
            /\ UNCHANGED <<requests, sess, continueBtns, notices, surfaced>>
       ELSE IF requests[rid].status # "pending"
       THEN /\ dbOk /\ netOk
            /\ UNCHANGED <<requests, rhist, sess, continueBtns, notices, surfaced>>
       ELSE IF action = "approve"
       THEN /\ LET approved == update_approval_request_status(requests, rid, "approved",
                                                               NULL, None, dbOk)
               IN  requests' = IF dbOk /\ ~netOk
                               THEN notify_failed(approved, rid)
                               ELSE approved
            /\ sess' = sess
            /\ surfaced' = IF dbOk THEN surfaced ELSE surfaced + 1
            /\ IF ~dbOk
               THEN /\ netOk
                    /\ UNCHANGED <<rhist, continueBtns, notices>>
               ELSE IF netOk
               THEN /\ rhist' = [rhist EXCEPT ![rid].decisions = @ + 1,
                                              ![rid].approvals = @ + 1,
                                              ![rid].notes = @ + 1]
                    /\ continueBtns' = continueBtns \cup {rid}
                    /\ notices' = notices
               ELSE /\ rhist' = [rhist EXCEPT ![rid].decisions = @ + 1,
                                              ![rid].approvals = @ + 1]
                    /\ continueBtns' = continueBtns
                    /\ notices' = notices \cup {"user_not_notified"}
       ELSE /\ dbOk
            /\ sess' = IF netOk
                       THEN [sess EXCEPT ![actor] =
                               awaiting_reject_comment(sess[actor].data, rid)]
                       ELSE sess
            /\ UNCHANGED <<requests, rhist, continueBtns, notices, surfaced>>
    /\ UNCHANGED <<now, queueVars, workerVars, confirming, alerts, probe, tasks, delivered>>

handle_manager_reject_comment(actor, text, dbOk, netOk) ==
    /\ LoopFree
    /\ sess[actor].state = "awaiting_reject_comment"
    /\ DbCall(dbOk)
    /\ LET reject_comment == strip(text)
           data == sess[actor].data
           rid == IF "current_reject_request_id" \in DOMAIN data
                  THEN data["current_reject_request_id"] ELSE 0
       IN  IF reject_comment = ""
           THEN /\ dbOk /\ netOk
                /\ notices' = notices \cup {"reason_empty"}
                /\ UNCHANGED <<requests, rhist, sess, surfaced>>
           ELSE /\ sess' = [sess EXCEPT ![actor] = NoSession]
                /\ notices' = notices
                /\ IF ~RowExists(requests, rid)
                   THEN /\ dbOk /\ netOk
                        /\ UNCHANGED <<requests, rhist, surfaced>>
                   ELSE IF NotYours(requests[rid], actor)
                   THEN /\ dbOk /\ netOk
                        /\ rhist' = [rhist EXCEPT ![rid].denied = TRUE]
                        /\ UNCHANGED <<requests, surfaced>>
                   ELSE IF requests[rid].status # "pending"
                   THEN /\ dbOk /\ netOk
                        /\ UNCHANGED <<requests, rhist, surfaced>>
                   ELSE /\ surfaced' = IF dbOk THEN surfaced ELSE surfaced + 1
                        /\ requests' = update_approval_request_status(requests, rid,
                                           "rejected", NULL, reject_comment, dbOk)
                        /\ IF ~dbOk
                           THEN /\ netOk
                                /\ rhist' = rhist
                           ELSE IF netOk
                           THEN rhist' = [rhist EXCEPT ![rid].decisions = @ + 1,
                                                       ![rid].notes = @ + 1]
                           ELSE rhist' = [rhist EXCEPT ![rid].decisions = @ + 1]
    /\ UNCHANGED <<now, queueVars, workerVars, confirming, alerts, probe,
                   tasks, delivered, continueBtns>>

ContinueRefused_any_user(rs, rid, user_id) ==
    \/ ~RowExists(rs, rid)
    \/ rs[rid].status # "approved"

(* The three early returns of handle_continue_order: the request is not    *)
(* found, is not of the user who pressed the button, is not approved.      *)
ContinueRefused(rs, rid, user_id) ==
    \/ ~RowExists(rs, rid)
    \/ rs[rid].user_id # user_id
    \/ rs[rid].status # "approved"

set_data_merging(data, new) == update_data(data, new)

(* state.set_data: the data of the state become the given ones, whatever   *)
(* they were (state.update_data merges instead).                           *)
set_data(data, new) == new

(* netOk: callback.answer, message.delete and message.answer all returned; *)
(* otherwise the except branch deletes the request again (dbOk2) and       *)
(* clears the state.                                                       *)
handle_continue_order(actor, rid, dbOk, dbOk2, netOk) ==
    /\ LoopFree
    /\ rid \in continueBtns
    /\ IF ContinueRefused(requests, rid, actor)
       THEN /\ dbOk /\ dbOk2 /\ netOk
            /\ UNCHANGED <<dbFaults, requests, rhist, sess>>
       ELSE /\ rhist' = [rhist EXCEPT ![rid].restores = @ + 1]
            /\ IF netOk
               THEN /\ dbOk2
                    /\ DbCall(dbOk)
                    /\ requests' = delete_approval_request(requests, rid, dbOk)
                    /\ sess' = [sess EXCEPT ![actor] =
                                  [state |-> "order_reason_input",
                                   data |-> set_data(sess[actor].data,
                                                json_loads(requests[rid].user_data))]]
               ELSE /\ dbOk \/ dbOk2
                    /\ DbCall(dbOk /\ dbOk2)
                    /\ requests' = delete_approval_request(
                                       delete_approval_request(requests, rid, dbOk),
                                       rid, dbOk2)
                    /\ sess' = [sess EXCEPT ![actor] = NoSession]
    /\ UNCHANGED <<now, queueVars, workerVars, confirming, alerts, probe,
                   tasks, delivered, continueBtns, notices, surfaced>>

NoProbe == [fn |-> "none"]

Init ==
    /\ now = 1
    /\ dbFaults = 0
    /\ queue = <<>>
    /\ hist = <<>>
    /\ wpc = "claim"
    /\ batch = <<>>
    /\ wpc2 = "off"
    /\ batch2 = <<>>
    /\ sess = [u \in Actors |-> NoSession]
    /\ confirming = [u \in Users |-> <<>>]
    /\ alerts = <<>>
    /\ probe = NoProbe
    /\ requests = <<>>
    /\ rhist = <<>>
    /\ tasks = {}
    /\ delivered = {}
    /\ continueBtns = {}
    /\ notices = {}
    /\ surfaced = 0

Worker ==
    \/ WorkerClaim
    \/ WorkerWake
    \/ \E dbOk \in DbOutcomes : WorkerMark(dbOk)
    \/ \E ok \in BOOLEAN, dbOk \in DbOutcomes : WorkerWrite(ok, dbOk)
    \/ WorkerEscalate

OrderEntry ==
    \/ \E u \in Users, a \in PlainArticles : StartOrder(u, a, MaxOrders)
    \/ \E u \in Users, n \in Quantities : process_quantity_input(u, n)
    \/ \E u \in Users, r \in Reasons : process_order_reason(u, r)
    \/ \E u \in Users : final_confirmation(u)
    \/ \E u \in Users, t \in {now, now + 1}, dbOk \in DbOutcomes :
          final_confirmation_enqueue(u, t, dbOk, MaxOrders)

Next ==
    \/ Worker
    \/ OrderEntry

Spec == Init /\ [][Next]_vars

(***************************************************************************)
(* The queue with a store whose writes succeed and a worker that is        *)
(* scheduled: asyncio resumes the worker task when its sleep or its send   *)
(* ends, and the blocking gspread call returns or raises.                  *)
(***************************************************************************)
LiveWorker ==
    \/ WorkerClaim
    \/ WorkerWake
    \/ WorkerMark(TRUE)
    \/ \E ok \in BOOLEAN : WorkerWrite(ok, TRUE)
    \/ WorkerEscalate

LiveOrderEntry ==
    \/ \E u \in Users, a \in PlainArticles : StartOrder(u, a, MaxLiveOrders)
    \/ \E u \in Users, n \in Quantities : process_quantity_input(u, n)
    \/ \E u \in Users, r \in Reasons : process_order_reason(u, r)
    \/ \E u \in Users : final_confirmation(u)
    \/ \E u \in Users, t \in {now, now + 1} :
          final_confirmation_enqueue(u, t, TRUE, MaxLiveOrders)

LiveNext ==
    \/ LiveWorker
    \/ LiveOrderEntry

LiveSpec == Init /\ [][LiveNext]_vars /\ WF_vars(LiveWorker)

(***************************************************************************)
(* The worker loop with everything that is raised in a cycle: in the       *)
(* SELECT of the claim, in the ledger write, and outside the handler of    *)
(* the entry.  A failed update of the entry raises nothing in the loop     *)
(* (update_order_status returns False), so the store writes succeed here.  *)
(***************************************************************************)
LoopWorker ==
    \/ WorkerClaim
    \/ WorkerClaimFailed
    \/ WorkerWake
    \/ WorkerMark(TRUE)
    \/ \E ok \in BOOLEAN : WorkerWrite(ok, TRUE)
    \/ WorkerEscalate
    \/ WorkerCycleError

LoopNext ==
    \/ LoopWorker
    \/ LiveOrderEntry

LoopSpec == Init /\ [][LoopNext]_vars /\ WF_vars(LoopWorker)

(***************************************************************************)
(* The approval gate and the resume controller, with the order entry that  *)
(* leads to them and follows them; the worker stays at its first claim.    *)
(***************************************************************************)
ApprovalOrderEntry ==
    \/ \E u \in Users, a \in ManagedTop0Articles : StartOrder(u, a, MaxOrders)
    \/ \E u \in Users, r \in Reasons : process_order_reason(u, r)

Gate ==
    \/ \E u \in Users, n \in Quantities, dbOk \in DbOutcomes, sendOk \in BOOLEAN :
          process_quantity_input_gate(u, n, dbOk, sendOk, MaxRequests)
    \/ \E u \in Users, rid \in 1..Len(requests), dbOk \in DbOutcomes :
          gate_sent(u, rid, dbOk)
    \/ \E u \in Users, rid \in 1..Len(requests), dbOk \in DbOutcomes :
          gate_send_failed(u, rid, dbOk)

Resume ==
    \/ \E a \in Actors, action \in {"approve", "start_reject"}, rid \in delivered,
          dbOk \in DbOutcomes, netOk \in BOOLEAN :
          handle_manager_approval(a, action, rid, dbOk, netOk)
    \/ \E a \in Actors, text \in RejectReasons, dbOk \in DbOutcomes, netOk \in BOOLEAN :
          handle_manager_reject_comment(a, text, dbOk, netOk)
    \/ \E a \in Actors, rid \in continueBtns, dbOk \in DbOutcomes, dbOk2 \in DbOutcomes,
          netOk \in BOOLEAN :
          handle_continue_order(a, rid, dbOk, dbOk2, netOk)

ApprovalNext ==
    \/ ApprovalOrderEntry
    \/ Gate
    \/ Resume

ApprovalSpec == Init /\ [][ApprovalNext]_vars

(***************************************************************************)
(* The same handlers with a store whose writes succeed, with items whose   *)
(* department has no manager and with empty reject reasons.                *)
(***************************************************************************)
OkOrderEntry ==
    \/ \E u \in Users, a \in Top0Articles : StartOrder(u, a, MaxOrders)
    \/ \E u \in Users, r \in Reasons : process_order_reason(u, r)

OkGate ==
    \/ \E u \in Users, n \in Quantities, sendOk \in BOOLEAN :
          process_quantity_input_gate(u, n, TRUE, sendOk, MaxRequests)
    \/ \E u \in Users, rid \in 1..Len(requests) : gate_sent(u, rid, TRUE)
    \/ \E u \in Users, rid \in 1..Len(requests) : gate_send_failed(u, rid, TRUE)

OkResume ==
    \/ \E a \in Actors, action \in {"approve", "start_reject"}, rid \in delivered,
          netOk \in BOOLEAN :
          handle_manager_approval(a, action, rid, TRUE, netOk)
    \/ \E a \in Actors, text \in Comments, netOk \in BOOLEAN :
          handle_manager_reject_comment(a, text, TRUE, netOk)
    \/ \E a \in Actors, rid \in continueBtns, netOk \in BOOLEAN :
          handle_continue_order(a, rid, TRUE, TRUE, netOk)

ApprovalOkNext ==
    \/ OkOrderEntry
    \/ OkGate
    \/ OkResume

ApprovalOkSpec == Init /\ [][ApprovalOkNext]_vars

(***************************************************************************)
(* A second bot process started on the same articles.db: its               *)
(* process_order_queue runs the same loop on its own pending_orders.  The  *)
(* two workers are tasks of different event loops, so each can run between *)
(* any two statements of the other; the store writes succeed.              *)
(***************************************************************************)
NextItem2 ==
    /\ batch2' = Tail(batch2)
    /\ wpc2' = IF Tail(batch2) = <<>> THEN "pause" ELSE "mark"

SecondProcessStart ==
    /\ wpc2 = "off"
    /\ wpc2' = "claim"
    /\ UNCHANGED <<now, dbFaults, queueVars, wpc, batch, batch2, userVars>>

Worker2Claim ==
    /\ wpc2 = "claim"
    /\ \E rows \in get_pending_orders(queue, BatchLimit) :
          /\ batch2' = rows
          /\ wpc2' = IF rows = <<>> THEN "idle" ELSE "mark"
    /\ UNCHANGED <<now, dbFaults, queueVars, wpc, batch, userVars>>

Worker2Wake ==
    /\ wpc2 \in {"idle", "pause"}
    /\ wpc2' = "claim"
    /\ UNCHANGED <<now, dbFaults, queueVars, wpc, batch, batch2, userVars>>

Worker2Mark ==
    /\ wpc2 = "mark"
    /\ queue' = update_order_status(queue, Head(batch2).id, "processing", "", TRUE)
    /\ wpc2' = "write"
    /\ UNCHANGED <<now, dbFaults, hist, wpc, batch, batch2, userVars>>

Worker2Write(ok) ==
    /\ wpc2 = "write"
    /\ LET item == Head(batch2) IN
       IF ok
       THEN /\ queue' = update_order_status(queue, item.id, "completed", "", TRUE)
            /\ hist' = [hist EXCEPT ![item.id].tries = @ + 1,
                                    ![item.id].rows = @ + 1]
            /\ NextItem2
       ELSE /\ queue' = update_order_status(queue, item.id, "failed", "error", TRUE)
            /\ IF item.attempt_count + 1 >= max_retries
               THEN /\ hist' = [hist EXCEPT ![item.id].tries = @ + 1,
                                            ![item.id].esc = @ + 1]
                    /\ wpc2' = "escalate"
                    /\ batch2' = batch2
               ELSE /\ hist' = [hist EXCEPT ![item.id].tries = @ + 1]
                    /\ NextItem2
    /\ UNCHANGED <<now, dbFaults, wpc, batch, userVars>>

Worker2Escalate ==
    /\ wpc2 = "escalate"
    /\ NextItem2
    /\ UNCHANGED <<now, dbFaults, queueVars, wpc, batch, userVars>>

Worker2 ==
    \/ SecondProcessStart
    \/ Worker2Claim
    \/ Worker2Wake
    \/ Worker2Mark
    \/ \E ok \in BOOLEAN : Worker2Write(ok)
    \/ Worker2Escalate

TwoWorkerNext ==
    \/ LiveWorker
    \/ Worker2
    \/ LiveOrderEntry

TwoWorkerSpec == Init /\ [][TwoWorkerNext]_vars

(***************************************************************************)
(* Several requests of one user: orders of items that need approval, the   *)
(* gate with room for MaxUserRequests requests, and the approvers with     *)
(* both of their handlers; the store writes succeed.                       *)
(***************************************************************************)
TwoRequestEntry ==
    \E u \in Users, a \in ManagedTop0Articles : StartOrder(u, a, MaxOrders)

TwoRequestGate ==
    \/ \E u \in Users, n \in TwoQuantities, sendOk \in BOOLEAN :
          process_quantity_input_gate(u, n, TRUE, sendOk, MaxUserRequests)
    \/ \E u \in Users, rid \in 1..Len(requests) : gate_sent(u, rid, TRUE)
    \/ \E u \in Users, rid \in 1..Len(requests) : gate_send_failed(u, rid, TRUE)

TwoRequestDecide ==
    \/ \E a \in Managers, action \in {"approve", "start_reject"}, rid \in delivered,
          netOk \in BOOLEAN :
          handle_manager_approval(a, action, rid, TRUE, netOk)
    \/ \E a \in Managers, text \in RejectReasons, netOk \in BOOLEAN :
          handle_manager_reject_comment(a, text, TRUE, netOk)

TwoRequestNext ==
    \/ TwoRequestEntry
    \/ TwoRequestGate
    \/ TwoRequestDecide

TwoRequestSpec == Init /\ [][TwoRequestNext]_vars

(***************************************************************************)
(* An order that needs approval from its start to the queue, with the      *)
(* quantity corrected at the confirmation step: the order entry, the gate  *)
(* with room for MaxUserRequests requests, both approver handlers, the     *)
(* resume and the enqueue; the store writes and the messages of the        *)
(* approver handlers succeed and the worker stays at its first claim.      *)
(***************************************************************************)
ResubmitEntry ==
    \/ \E u \in Users, a \in ManagedTop0Articles : StartOrder(u, a, MaxOrders)
    \/ \E u \in Users, r \in Reasons : process_order_reason(u, r)
    \/ \E u \in Users : correct_quantity(u)
    \/ \E u \in Users : final_confirmation(u)
    \/ \E u \in Users : final_confirmation_enqueue(u, now + 1, TRUE, MaxOrders)

ResubmitResume ==
    \/ \E a \in Managers, action \in {"approve", "start_reject"}, rid \in delivered :
          handle_manager_approval(a, action, rid, TRUE, TRUE)
    \/ \E a \in Managers, text \in RejectReasons :
          handle_manager_reject_comment(a, text, TRUE, TRUE)
    \/ \E u \in Users, rid \in continueBtns, netOk \in BOOLEAN :
          handle_continue_order(u, rid, TRUE, TRUE, netOk)

ResubmitNext ==
    \/ ResubmitEntry
    \/ TwoRequestGate
    \/ ResubmitResume

ResubmitSpec == Init /\ [][ResubmitNext]_vars

(***************************************************************************)
(* The host process stopped at an arbitrary point and started again.  The  *)
(* tables of the store survive; the FSM storage of the dispatcher is in    *)
(* memory, so every session is gone, and so is whatever the stopped        *)
(* process held in its tasks: the batch of its worker and the handlers     *)
(* suspended at an await.  startup() creates the worker task of the new    *)
(* process, which begins with a claim.                                     *)
(***************************************************************************)
Restart ==
    /\ wpc # "stopped"
    /\ wpc2 = "off"
    /\ wpc' = "stopped"
    /\ batch' = <<>>
    /\ wpc2' = "claim"
    /\ batch2' = <<>>
    /\ sess' = [a \in Actors |-> NoSession]
    /\ confirming' = [u \in Users |-> <<>>]
    /\ tasks' = {}
    /\ UNCHANGED <<now, dbFaults, queueVars, alerts, probe, requests, rhist,
                   delivered, continueBtns, notices, surfaced>>

(* The worker of the process started by Restart. *)
RestartedWorker ==
    \/ Worker2Claim
    \/ Worker2Wake
    \/ Worker2Mark
    \/ \E ok \in BOOLEAN : Worker2Write(ok)
    \/ Worker2Escalate

(* The handlers run between the awaits of the worker of their own process. *)
RestartOrderEntry ==
    /\ wpc2 \notin {"mark", "write"}
    /\ LiveOrderEntry

RestartNext ==
    \/ LiveWorker
    \/ Restart
    \/ RestartedWorker
    \/ RestartOrderEntry

RestartSpec ==
    Init /\ [][RestartNext]_vars /\ WF_vars(LiveWorker) /\ WF_vars(RestartedWorker)

(***************************************************************************)
(* The request handlers and the queue worker side by side, as the event    *)
(* loop runs them, with a store whose writes succeed: orders of items with *)
(* and without approval, the gate, the approver of the request, the        *)
(* requester's resume, the enqueue (each in a later second than the one    *)
(* before) and the worker.                                                 *)
(***************************************************************************)
WholeOrderEntry ==
    \/ \E u \in Users, a \in PlainArticles \cup ManagedTop0Articles :
          StartOrder(u, a, MaxOrders)
    \/ \E u \in Users, n \in Quantities : process_quantity_input(u, n)
    \/ \E u \in Users, r \in Reasons : process_order_reason(u, r)
    \/ \E u \in Users : final_confirmation(u)
    \/ \E u \in Users : final_confirmation_enqueue(u, now + 1, TRUE, MaxOrders)

WholeResume ==
    \/ \E rid \in delivered, action \in {"approve", "start_reject"}, netOk \in BOOLEAN :
          handle_manager_approval(requests[rid].manager_id, action, rid, TRUE, netOk)
    \/ \E a \in Managers, text \in RejectReasons, netOk \in BOOLEAN :
          handle_manager_reject_comment(a, text, TRUE, netOk)
    \/ \E u \in Users, rid \in continueBtns, netOk \in BOOLEAN :
          handle_continue_order(u, rid, TRUE, TRUE, netOk)

WholeNext ==
    \/ LiveWorker
    \/ WholeOrderEntry
    \/ OkGate
    \/ WholeResume

WholeSpec == Init /\ [][WholeNext]_vars

(***************************************************************************)
(* get_pending_orders applied to a table the program can have built: row   *)
(* ids ascend with created_at, a pending row has no failed attempt, a      *)
(* failed row has at least one.                                            *)
(***************************************************************************)
RowKinds ==
    {[status |-> "pending", attempt_count |-> 0],
     [status |-> "processing", attempt_count |-> 4],
     [status |-> "completed", attempt_count |-> 0],
     [status |-> "failed", attempt_count |-> 1],
     [status |-> "failed", attempt_count |-> 4],
     [status |-> "failed", attempt_count |-> 5]}

TableRow(kind, t) ==
    [user_id |-> "u1",
     order_data |-> NoData,
     status |-> kind.status,
     attempt_count |-> kind.attempt_count,
     error_message |-> IF kind.attempt_count > 0 THEN "error" ELSE "",
     created_at |-> t,
     processed_at |-> IF kind.status = "completed" THEN Stamp ELSE NULL]

Tables ==
    UNION {{[i \in 1..n |-> TableRow(k[i], c[i])] :
               k \in [1..n -> RowKinds],
               c \in {f \in [1..n -> 1..n] :
                         /\ n > 0 => f[1] = 1
                         /\ \A i \in 1..(n - 1) : f[i + 1] \in {f[i], f[i] + 1}}} :
           n \in 0..MaxRows}

StoreInit ==
    /\ now = 1
    /\ dbFaults = 0
    /\ queue \in Tables
    /\ hist = [i \in 1..Len(queue) |-> [tries |-> 0, rows |-> 0, esc |-> 0]]
    /\ wpc = "idle"
    /\ batch = <<>>
    /\ wpc2 = "off"
    /\ batch2 = <<>>
    /\ sess = [u \in Actors |-> NoSession]
    /\ confirming = [u \in Users |-> <<>>]
    /\ alerts = <<>>
    /\ probe = NoProbe
    /\ requests = <<>>
    /\ rhist = <<>>
    /\ tasks = {}
    /\ delivered = {}
    /\ continueBtns = {}
    /\ notices = {}
    /\ surfaced = 0

ProbeClaim(limit) ==
    /\ probe = NoProbe
    /\ \E rows \in get_pending_orders(queue, limit) :
          probe' = [fn |-> "get_pending_orders", limit |-> limit, rows |-> rows]
    /\ UNCHANGED <<now, dbFaults, queueVars, workerVars, sess, confirming, alerts, apprVars>>

StoreNext == \E limit \in 1..MaxLimit : ProbeClaim(limit)

StoreSpec == StoreInit /\ [][StoreNext]_vars

TypeOK ==
    /\ now \in 1..(MaxOrders + 1)
    /\ wpc \in {"claim", "idle", "mark", "write", "escalate", "pause", "stopped"}
    /\ wpc2 \in {"off", "claim", "idle", "mark", "write", "escalate", "pause"}
    /\ Len(queue) = Len(hist)
    /\ dbFaults \in 0..MaxDbFaults
    /\ Len(requests) = Len(rhist)
    /\ Len(requests) <= MaxUserRequests
    /\ \A r \in 1..Len(requests) :
           /\ requests[r].status \in {"pending", "approved", "rejected"}
           /\ requests[r].manager_id \in Managers
           /\ requests[r].user_id \in Users
           /\ requests[r].manager_message_id \in {NULL, MsgId(r)}
    /\ tasks \subseteq [actor : Users, rid : 1..Len(requests), ok : BOOLEAN]
    /\ delivered \subseteq 1..Len(requests)
    /\ continueBtns \subseteq delivered
    /\ notices \subseteq {"no_manager", "reason_empty", "user_not_notified"}
    /\ surfaced \in 0..dbFaults
    /\ Len(alerts) <= dbFaults
    /\ \A a \in Actors :
           sess[a].state \in {"none", "quantity_input", "order_reason_input",
                              "confirmation", "awaiting_reject_comment"}

(***************************************************************************)
(* Claims about the queue.                                                 *)
(***************************************************************************)
Terminal(i) ==
    \/ queue[i].status = "completed"
    \/ queue[i].status = "failed" /\ queue[i].attempt_count >= 5

C6_AtMostFiveAttempts ==
    \A i \in 1..Len(queue) :
        /\ hist[i].tries <= 5
        /\ (queue[i].attempt_count >= 5 => queue[i].status = "failed")

(* C7: the escalation of an entry is emitted exactly once, at the failure  *)
(* that brings attempt_count to 5: never while attempt_count is below 5,   *)
(* never for an entry that completes, never twice.                         *)
C7_EscalationExactlyOnce ==
    \A i \in 1..Len(queue) :
        /\ hist[i].esc <= 1
        /\ hist[i].esc = 1 => queue[i].status = "failed" /\ queue[i].attempt_count = 5
        /\ queue[i].status = "failed" /\ queue[i].attempt_count = 5 => hist[i].esc = 1

(* C8: attempt_count never decreases, grows by exactly 1 on each           *)
(* transition to failed, is unchanged by the transitions to processing     *)
(* and to completed, and never exceeds the number of failed ledger writes  *)
(* of the entry (it equals that number while every store write succeeded). *)
C8_AttemptCountCountsFailures ==
    [][\A i \in 1..Len(queue) :
          /\ queue'[i].attempt_count \in
                 {queue[i].attempt_count, queue[i].attempt_count + 1}
          /\ queue'[i].attempt_count = queue[i].attempt_count + 1 <=>
                 /\ queue'[i].status = "failed"
                 /\ hist'[i].tries - hist'[i].rows = hist[i].tries - hist[i].rows + 1
                 /\ queue'[i] # queue[i]
          /\ queue'[i].status \in {"processing", "completed"} /\ queue'[i] # queue[i] =>
                 queue'[i].attempt_count = queue[i].attempt_count
          /\ queue'[i].attempt_count <= hist'[i].tries - hist'[i].rows
          /\ dbFaults' = 0 =>
                 queue'[i].attempt_count = hist'[i].tries - hist'[i].rows]_vars

C8_Witness ==
    /\ Len(queue) >= 1
    /\ queue[1].status = "completed"
    /\ queue[1].attempt_count = 2
    /\ hist[1].tries = 3

(* C9: get_pending_orders(limit) returns exactly the first min(limit, n)   *)
(* of the n eligible rows in ascending created_at order; a row is eligible *)
(* iff it is pending, or failed with attempt_count < 5.                    *)
C9_IsEligible(i) ==
    \/ queue[i].status = "pending"
    \/ queue[i].status = "failed" /\ queue[i].attempt_count < 5

BatchIds(b) == {b[k].id : k \in 1..Len(b)}

PosIn(b, i) == CHOOSE k \in 1..Len(b) : b[k].id = i

C10_FifoClaimAndWrite ==
    [][/\ wpc = "claim" =>
            \A A, B \in 1..Len(queue) :
                /\ queue[A].status = "pending" /\ queue[B].status = "pending"
                /\ queue[A].created_at < queue[B].created_at
                /\ B \in BatchIds(batch')
                => A \in BatchIds(batch') /\ PosIn(batch', A) < PosIn(batch', B)
       /\ \A B \in 1..Len(queue) :
            hist'[B].tries > hist[B].tries =>
                /\ batch[1].id = B
                /\ \A A \in BatchIds(batch) :
                       queue[B].created_at <= queue[A].created_at]_vars

C10_Witness ==
    /\ Len(queue) = 2
    /\ queue[1].created_at < queue[2].created_at
    /\ hist[1].tries = 1
    /\ hist[2].tries = 0
    /\ wpc = "mark"
    /\ Len(batch) = 1
    /\ batch[1].id = 2
    /\ batch[1].attempt_count = 0
(***************************************************************************)
(* Claims about approval requests (checked under ApprovalSpec).            *)
(***************************************************************************)

(* C2: the status of a request changes only from pending to approved or    *)
(* from pending to rejected; no step of the gate, of the approver handlers *)
(* or of continue-order changes the status of a decided request.           *)
C2_StatusOnlyLeavesPending ==
    [][\A r \in 1..Len(requests) :
          requests'[r].status # requests[r].status =>
              /\ requests[r].status = "pending"
              /\ requests'[r].status \in {"approved", "rejected"}]_vars

ApproverEvent(a, rid) ==
    \/ \E action \in {"approve", "start_reject"}, dbOk \in BOOLEAN, netOk \in BOOLEAN :
          handle_manager_approval(a, action, rid, dbOk, netOk)
    \/ \E text \in Comments, dbOk \in BOOLEAN, netOk \in BOOLEAN :
          /\ "current_reject_request_id" \in DOMAIN sess[a].data
          /\ sess[a].data["current_reject_request_id"] = rid
          /\ handle_manager_reject_comment(a, text, dbOk, netOk)

(* C3: an approve, start-reject or reject-reason event for a request from  *)
(* an actor who is not the approver of the request leaves status,          *)
(* reject_comment and the snapshot of the request unchanged, notifies the  *)
(* requester of nothing and hands out no continue button.                  *)
C3_NonApproverChangesNothing ==
    [][\A a \in Actors : \A r \in 1..Len(requests) :
          requests[r].manager_id # a /\ ApproverEvent(a, r) =>
              /\ requests'[r].status = requests[r].status
              /\ requests'[r].reject_comment = requests[r].reject_comment
              /\ requests'[r].user_data = requests[r].user_data
              /\ requests'[r].present = requests[r].present
              /\ rhist'[r].notes = rhist[r].notes
              /\ (r \in continueBtns') = (r \in continueBtns)
              /\ sess' = sess]_vars

C3_Witness ==
    /\ Len(requests) >= 1
    /\ rhist[1].denied
    /\ rhist[1].decisions = 0
    /\ requests[1].present
    /\ requests[1].status = "pending"
    /\ requests[1].manager_message_id = MsgId(1)

(* C4: a decision (approve or reject reason) handled for a request that is *)
(* not pending leaves the request, the notifications and the sessions of   *)
(* the requester unchanged, and of all the decisions handled for one       *)
(* request at most one takes effect.                                       *)
C4_DecisionOnDecidedIsNoOp ==
    /\ [](\A r \in 1..Len(requests) : rhist[r].decisions <= 1)
    /\ [][\A a \in Actors : \A r \in 1..Len(requests) :
             requests[r].status # "pending" /\ ApproverEvent(a, r) =>
                 /\ requests' = requests
                 /\ rhist'[r].notes = rhist[r].notes
                 /\ rhist'[r].restores = rhist[r].restores
                 /\ continueBtns' = continueBtns
                 /\ \A u \in Users : sess'[u] = sess[u]]_vars

(* C5: approving a request twice resumes the order once: the session of    *)
(* the requester is restored from the snapshot at most once, and an        *)
(* approve of a request that was approved before changes neither the       *)
(* session of the requester nor the request.                               *)
C5_ApproveTwiceResumesOnce ==
    /\ [](\A r \in 1..Len(requests) : rhist[r].restores <= 1)
    /\ [][\A a \in Actors : \A r \in 1..Len(requests) :
             /\ rhist[r].approvals >= 1
             /\ \E dbOk \in BOOLEAN, netOk \in BOOLEAN :
                    handle_manager_approval(a, "approve", r, dbOk, netOk)
             => /\ requests' = requests
                /\ \A u \in Users : sess'[u] = sess[u]]_vars
(***************************************************************************)
(* Claims about the hand-over of a confirmed order to the queue.           *)
(***************************************************************************)

C12_WriteFailuresSurfaced ==
    [][dbFaults' > dbFaults =>
          Len(alerts') > Len(alerts) \/ surfaced' > surfaced]_vars

(***************************************************************************)
(* Claims about the gate.                                                  *)
(***************************************************************************)

(* C13: once the gate step of a request has ended, the request is not      *)
(* pending without its approver notification having been delivered: a      *)
(* failed notification leaves no request behind.                           *)
C13_NoOrphanPendingRequest ==
    \A r \in 1..Len(requests) :
        requests[r].present /\ requests[r].status = "pending" /\ r \notin delivered
            => \E t \in tasks : t.rid = r

(* C14: when the item needs approval and its department has no manager,    *)
(* the gate creates no request, notifies no approver, answers the          *)
(* requester with an error and clears the session of the requester.        *)
C14_NoApproverNoRequest ==
    [][\A u \in Users :
          /\ sess[u].state = "quantity_input"
          /\ sess[u].data["article"] \in Top0Articles \ ManagedTop0Articles
          /\ \E n \in Quantities, sendOk \in BOOLEAN :
                 process_quantity_input_gate(u, n, TRUE, sendOk, MaxRequests)
          => /\ requests' = requests
             /\ delivered' = delivered
             /\ tasks' = tasks
             /\ "no_manager" \in notices'
             /\ sess'[u] = NoSession]_vars

C14_Witness ==
    /\ "no_manager" \in notices
    /\ requests = <<>>
    /\ delivered = {}
    /\ tasks = {}
    /\ sess["u1"] = NoSession

(* C15: when the gate step of a request ends after the approver was        *)
(* notified, the requester has no session and the request exists with      *)
(* status pending and a snapshot equal to the session data at the          *)
(* suspension, the entered quantity included.                              *)
C15_SuspendedOrderLivesInRequest ==
    [][\A t \in tasks :
          t.ok /\ t \notin tasks' =>
              /\ sess'[t.actor] = NoSession
              /\ RowExists(requests', t.rid)
              /\ requests'[t.rid].status = "pending"
              /\ "quantity" \in DOMAIN rhist[t.rid].frozen
              /\ json_loads(requests'[t.rid].user_data) = rhist[t.rid].frozen]_vars

(***************************************************************************)
(* Claims about the decisions of the approver and about the resume.        *)
(***************************************************************************)

(* C16: a reject of a pending request with a non-empty reason R leaves the *)
(* request with status rejected and reject_comment R, and a rejected       *)
(* request is kept as it is: no later step deletes it or changes its       *)
(* status or its reason.                                                   *)
C16_RejectedRequestRetained ==
    [][\A r \in 1..Len(requests) :
          /\ requests[r].status = "pending" /\ requests'[r].status = "rejected" =>
                 /\ requests'[r].reject_comment \in RejectReasons
                 /\ requests'[r].present
          /\ requests[r].present /\ requests[r].status = "rejected" =>
                 /\ requests'[r].present
                 /\ requests'[r].status = "rejected"
                 /\ requests'[r].reject_comment = requests[r].reject_comment]_vars

C18_ApprovedOrderResumedAndRequestGone ==
    [][\A r \in 1..Len(requests) :
          /\ rhist'[r].restores = rhist[r].restores + 1
          /\ sess'[requests[r].user_id].state = "order_reason_input"
          => /\ sess'[requests[r].user_id].data = rhist[r].frozen
             /\ ~RowExists(requests', r)]_vars

(* C19: when the resume of an approved request fails, the request is       *)
(* deleted all the same and an operator alert is sent.                     *)
C19_FailedResumeDeletesAndEscalates ==
    [][\A r \in 1..Len(requests) :
          /\ rhist'[r].restores = rhist[r].restores + 1
          /\ sess'[requests[r].user_id].state # "order_reason_input"
          => /\ ~RowExists(requests', r)
             /\ Len(alerts') > Len(alerts)]_vars

C21_StatusTransitions ==
    [][/\ Len(queue') >= Len(queue)
       /\ \A i \in 1..Len(queue) :
            queue'[i].status # queue[i].status =>
                \/ queue[i].status = "pending" /\ queue'[i].status = "processing"
                \/ /\ queue[i].status = "processing"
                   /\ queue'[i].status \in {"completed", "failed"}
                \/ /\ queue[i].status = "failed"
                   /\ queue[i].attempt_count < 5
                   /\ queue'[i].status = "processing"]_vars

(* C22: the step that records the success of the first ledger write of an  *)
(* entry leaves it completed with processed_at set, error_message empty    *)
(* and attempt_count 0, with no escalation; and processed_at is set only   *)
(* for completed entries.                                                  *)
C22_FirstWriteSucceeds ==
    /\ [](\A i \in 1..Len(queue) :
             queue[i].processed_at # NULL => queue[i].status = "completed")
    /\ [][\A i \in 1..Len(queue) :
             hist[i].tries = 0 /\ hist'[i].rows = 1 =>
                 /\ queue'[i].status = "completed"
                 /\ queue'[i].processed_at # NULL
                 /\ queue'[i].error_message = ""
                 /\ queue'[i].attempt_count = 0
                 /\ hist'[i].esc = 0]_vars

(* C23: for k in 1..4, when the ledger write of an entry succeeds after k  *)
(* failed writes, attempt_count is k before and after that step, the entry *)
(* ends completed and no escalation was emitted for it.                    *)
C23_RetryThenSuccess ==
    [][\A i \in 1..Len(queue) :
          /\ hist[i].tries \in 1..4
          /\ hist[i].rows = 0
          /\ hist'[i].rows = 1
          => /\ queue[i].attempt_count = hist[i].tries
             /\ queue'[i].attempt_count = hist[i].tries
             /\ queue'[i].status = "completed"
             /\ hist'[i].esc = 0]_vars

(* C24: at most one entry has status processing, it is the entry whose     *)
(* ledger write the worker is performing, and no entry is processing while *)
(* the worker is at its claim step or asleep.                              *)
C24_OneEntryAtATime ==
    /\ Cardinality({i \in 1..Len(queue) : queue[i].status = "processing"}) <= 1
    /\ \A i \in 1..Len(queue) :
          queue[i].status = "processing" =>
              /\ wpc = "write"
              /\ batch # <<>>
              /\ Head(batch).id = i

(* C25: the worker loop never ends: whatever was raised in a cycle (in the *)
(* claim, in the processing of an entry, in the sending of an alert), the  *)
(* worker comes back to its claim step again and again.                    *)
C25_WorkerAlwaysReturnsToClaim == []<>(wpc = "claim")

C25_Witness ==
    /\ wpc = "claim"
    /\ Len(queue) >= 1
    /\ hist[1].tries = 1
    /\ hist[1].rows = 0
    /\ queue[1].status = "processing"
    /\ queue[1].attempt_count = 1

(***************************************************************************)
(* Claims about the request handlers and the worker side by side.          *)
(***************************************************************************)

(* C26: a step of the worker leaves every approval request and every       *)
(* session unchanged, and a step of a request handler leaves every         *)
(* existing queue entry unchanged; the queue grows only by the one entry   *)
(* that a final confirmation appends.                                      *)
C26_HandlersAndWorkerShareNoRows ==
    [][/\ workerVars' # workerVars =>
            /\ requests' = requests
            /\ sess' = sess
       /\ (apprVars' # apprVars \/ sess' # sess \/ confirming' # confirming) =>
            /\ Len(queue') >= Len(queue)
            /\ \A i \in 1..Len(queue) : queue'[i] = queue[i]
       /\ Len(queue') # Len(queue) =>
            /\ Len(queue') = Len(queue) + 1
            /\ \E u \in Users :
                   /\ confirming[u] # <<>>
                   /\ confirming'[u] = Tail(confirming[u])]_vars

C26_Witness ==
    /\ wpc = "write"
    /\ Len(queue) = 2
    /\ queue[1].status = "processing"
    /\ hist[1].tries = 1
    /\ queue[2].status = "pending"
    /\ Len(requests) = 1
    /\ ~requests[1].present
    /\ rhist[1].restores = 1
    /\ json_loads(queue[2].order_data)["article"] \in ManagedTop0Articles

(* C28: for an item that needs no approval the quantity handler creates no *)
(* request, notifies no approver and suspends nothing: it keeps the        *)
(* session data, adds the quantity and goes on to the order-reason step,   *)
(* from where the order is confirmed and enqueued.                         *)
C28_NoApprovalNoGate ==
    [][\A u \in Users :
          /\ sess[u].state = "quantity_input"
          /\ sess[u].data["article"] \in PlainArticles
          /\ \/ \E n \in Quantities : process_quantity_input(u, n)
             \/ \E n \in Quantities, sendOk \in BOOLEAN :
                    process_quantity_input_gate(u, n, TRUE, sendOk, MaxRequests)
          => /\ requests' = requests
             /\ rhist' = rhist
             /\ tasks' = tasks
             /\ delivered' = delivered
             /\ notices' = notices
             /\ queue' = queue
             /\ sess'[u].state = "order_reason_input"
             /\ \E n \in Quantities :
                    sess'[u].data = update_data(sess[u].data, [k \in {"quantity"} |-> n])]_vars

C28_Witness ==
    /\ Len(queue) = 1
    /\ json_loads(queue[1].order_data)["article"] \in PlainArticles
    /\ json_loads(queue[1].order_data)["quantity"] \in Quantities
    /\ queue[1].status = "pending"
    /\ requests = <<>>
    /\ delivered = {}
    /\ tasks = {}

(***************************************************************************)
(* Claims about the reject path of the approver.                           *)
(***************************************************************************)

(* C29: the start of a reject of a pending request by its approver changes *)
(* only the session of the approver, which then awaits the reason and      *)
(* holds the request id; the request stays pending without reject_comment, *)
(* the requester is not notified, and a request becomes rejected only by a *)
(* non-empty reason from an approver who holds its id.                     *)
C29_StartRejectOnlySuspendsApprover ==
    [][/\ \A a \in Actors : \A r \in 1..Len(requests) :
            /\ requests[r].present
            /\ requests[r].status = "pending"
            /\ requests[r].manager_id = a
            /\ \E netOk \in BOOLEAN : handle_manager_approval(a, "start_reject", r, TRUE, netOk)
            => /\ requests' = requests
               /\ rhist' = rhist
               /\ continueBtns' = continueBtns
               /\ \A b \in Actors \ {a} : sess'[b] = sess[b]
               /\ \/ sess'[a] = sess[a]
                  \/ /\ sess'[a].state = "awaiting_reject_comment"
                     /\ "current_reject_request_id" \in DOMAIN sess'[a].data
                     /\ sess'[a].data["current_reject_request_id"] = r
                     /\ \A k \in DOMAIN sess[a].data \ {"current_reject_request_id"} :
                            sess'[a].data[k] = sess[a].data[k]
       /\ \A r \in 1..Len(requests) :
            requests[r].status # "rejected" /\ requests'[r].status = "rejected" =>
                /\ sess[requests[r].manager_id].state = "awaiting_reject_comment"
                /\ sess[requests[r].manager_id].data["current_reject_request_id"] = r
                /\ requests'[r].reject_comment \in RejectReasons
                /\ strip(requests'[r].reject_comment) # ""]_vars

C29_Witness ==
    /\ sess["m1"].state = "awaiting_reject_comment"
    /\ sess["m1"].data["current_reject_request_id"] = 1
    /\ requests[1].present
    /\ requests[1].status = "pending"
    /\ requests[1].reject_comment = None
    /\ rhist[1].notes = 0
    /\ notices = {}
    /\ tasks = {}

(* C30: a non-empty reason handled while the approver awaits one always    *)
(* ends with the state of the approver cleared: when the reject was        *)
(* recorded, when the update failed, when the request is missing, not the  *)
(* approver's own or already decided.                                      *)
C30_ReasonHandledClearsApprover ==
    [][\A a \in Actors :
          /\ sess[a].state = "awaiting_reject_comment"
          /\ \E text \in RejectReasons, dbOk \in BOOLEAN, netOk \in BOOLEAN :
                 handle_manager_reject_comment(a, text, dbOk, netOk)
          => sess'[a] = NoSession]_vars

C30_Witness ==
    /\ Len(requests) = 1
    /\ sess["m1"] = NoSession
    /\ requests[1].present
    /\ requests[1].status = "rejected"
    /\ requests[1].reject_comment = "budget"
    /\ rhist[1].decisions = 1
    /\ rhist[1].notes = 0
    /\ dbFaults = 0

(***************************************************************************)
(* Claims about two workers on one queue.                                  *)
(***************************************************************************)

(* C27: with two workers the mark of an entry as processing is             *)
(* unconditional: whatever the status of the entry, a worker that marks it *)
(* leaves it processing and goes on to its ledger write.  So both workers  *)
(* can hold the same entry at their ledger write (C27_Witness).            *)
C27_MarkIsUnconditional ==
    [][/\ wpc = "mark" /\ wpc' = "write" =>
            /\ queue'[Head(batch).id].status = "processing"
            /\ batch' = batch
       /\ wpc2 = "mark" /\ wpc2' = "write" =>
            /\ queue'[Head(batch2).id].status = "processing"
            /\ batch2' = batch2]_vars

C27_Witness ==
    /\ wpc = "write"
    /\ wpc2 = "write"
    /\ Head(batch).id = Head(batch2).id
    /\ queue[Head(batch).id].status = "processing"

(***************************************************************************)
(* Claims about the ledger writes of one worker.                           *)
(***************************************************************************)

(* C38: with a single worker no entry is written successfully to the       *)
(* ledger more than once: the number of successful ledger writes of every  *)
(* entry is at most 1.                                                     *)
C38_AtMostOneLedgerWrite ==
    \A i \in 1..Len(hist) : hist[i].rows <= 1

(***************************************************************************)
(* Claims about the requester's continue-order event.                      *)
(***************************************************************************)

C36_ApprovedSurvivesFailedNotice ==
    [][\A r \in 1..Len(requests) :
          /\ r \in continueBtns' \ continueBtns =>
                /\ requests'[r].present
                /\ requests'[r].status = "approved"
          /\ /\ rhist'[r].approvals = rhist[r].approvals + 1
             /\ rhist'[r].notes = rhist[r].notes
             => /\ requests[r].status = "pending"
                /\ requests'[r].present
                /\ requests'[r].status = "approved"
                /\ continueBtns' = continueBtns
                /\ "user_not_notified" \in notices']_vars

C36_Witness ==
    /\ Len(requests) = 1
    /\ requests[1].present
    /\ requests[1].status = "approved"
    /\ rhist[1].approvals = 1
    /\ rhist[1].notes = 0
    /\ 1 \notin continueBtns
    /\ "user_not_notified" \in notices

(***************************************************************************)
(* Claims about a restart of the host process.                             *)
(***************************************************************************)

(* C32: when the host process is stopped and started again at an arbitrary *)
(* point, also between the mark of an entry as processing and the record   *)
(* of the outcome of its ledger write, every recorded entry still          *)
(* eventually is completed or failed for good.                             *)
C32_RestartedEntryEventuallyTerminal ==
    \A i \in 1..MaxLiveOrders :
        [](Len(queue) >= i => <>(Len(queue) >= i /\ Terminal(i)))

(***************************************************************************)
(* Claims about several requests of one user.                              *)
(***************************************************************************)

(* C31: nothing limits a user to one pending request.  The gate of an item *)
(* whose department has a manager records a new pending request of the     *)
(* user with the snapshot of the session, whatever requests of that user   *)
(* exist already, and leaves those unchanged; so two pending requests of   *)
(* one user_id exist at the same time, each with its own snapshot          *)
(* (C31_Witness).                                                          *)
C31_GateIgnoresPendingRequests ==
    [][\A u \in Users :
          /\ sess[u].state = "quantity_input"
          /\ get_manager_id_by_department(sess[u].data["department"]) # {}
          /\ \E n \in TwoQuantities, sendOk \in BOOLEAN :
                 process_quantity_input_gate(u, n, TRUE, sendOk, MaxUserRequests)
          => /\ Len(requests') = Len(requests) + 1
             /\ \A r \in 1..Len(requests) : requests'[r] = requests[r]
             /\ LET new == requests'[Len(requests')]
                IN  /\ new.present
                    /\ new.user_id = u
                    /\ new.status = "pending"
                    /\ json_loads(new.user_data) = sess'[u].data
                    /\ json_loads(new.user_data)["quantity"] \in TwoQuantities]_vars

C31_Witness ==
    /\ Len(requests) = 2
    /\ \A r \in {1, 2} : /\ requests[r].present
                         /\ requests[r].user_id = "u1"
                         /\ requests[r].status = "pending"
                         /\ requests[r].manager_message_id = MsgId(r)
    /\ json_loads(requests[1].user_data)["quantity"] = 1
    /\ json_loads(requests[2].user_data)["quantity"] = 2
    /\ tasks = {}

(* C37: the state of an approver holds one request id.  The start of a     *)
(* reject of request B by an approver who awaits the reason for request A  *)
(* replaces A by B and changes no request, and a non-empty reason changes  *)
(* at most one request: the one the approver holds, which becomes          *)
(* rejected; every other request, A included, is left as it is.            *)
C37_OneHeldRequest ==
    [][\A a \in Managers :
          /\ \A A, B \in 1..Len(requests) :
                /\ A # B
                /\ sess[a].state = "awaiting_reject_comment"
                /\ sess[a].data["current_reject_request_id"] = A
                /\ RowExists(requests, B)
                /\ ~NotYours(requests[B], a)
                /\ requests[B].status = "pending"
                /\ handle_manager_approval(a, "start_reject", B, TRUE, TRUE)
                => /\ sess'[a].state = "awaiting_reject_comment"
                   /\ sess'[a].data["current_reject_request_id"] = B
                   /\ requests' = requests
          /\ /\ sess[a].state = "awaiting_reject_comment"
             /\ \E text \in RejectReasons, netOk \in BOOLEAN :
                    handle_manager_reject_comment(a, text, TRUE, netOk)
             => LET held == sess[a].data["current_reject_request_id"]
                IN  /\ \A r \in 1..Len(requests) \ {held} : requests'[r] = requests[r]
                    /\ requests'[held] # requests[held] =>
                          /\ requests[held].status = "pending"
                          /\ requests'[held].status = "rejected"
                    /\ sess'[a] = NoSession]_vars

C37_Witness ==
    /\ Len(requests) = 2
    /\ requests[1].present
    /\ requests[1].status = "pending"
    /\ requests[1].reject_comment = None
    /\ rhist[1].decisions = 0
    /\ requests[2].present
    /\ requests[2].status = "rejected"
    /\ requests[2].reject_comment = "budget"
    /\ rhist[2].decisions = 1
    /\ sess["m1"] = NoSession

(***************************************************************************)
(* Claims about the approval behind every queued order.                    *)
(***************************************************************************)

====
